---- MODULE Spec2Model ----
(***************************************************************************)
(* Process supervision subsystem of advanced-bot-hosting (src/hosting.py). *)
(*                                                                         *)
(* The supervisor runs on one asyncio event loop: start_process,           *)
(* stop_process and restart_process are synchronous functions, so each     *)
(* call is one atomic step; auto_restart_monitor is a coroutine that       *)
(* yields at its backoff wait and at its poll sleep.  Child processes run  *)
(* in parallel with the supervisor and may exit at any moment.             *)
(***************************************************************************)
EXTENDS Integers, Sequences, FiniteSets, TLC

\* ---------------------------------------------------------------- bounds
MaxTime == 6
MaxProcs == 3
MaxLog == 3
MaxFile == 5
MaxLines == 3
\* the size of the blocks read_logs reads, 8192 in the program
block == 2
MaxPairTime == 6
MaxPairProcs == 2
MaxPairLog == 2
\* subprocess.run calls counted per tool in the installer specification
MaxCalls == 3
\* descendants psutil enumerates under a child
MaxKids == 2

\* ------------------------------------------------------ program constants
AUTO_RESTART_CHECK_INTERVAL == 3
AUTO_RESTART_BACKOFF_SEC == 3
BACKOFF_CAP == 10
STOP_WAIT_TIMEOUT == 5
RESTART_PAUSE == 1

\* Optional[int] None, the return codes of a child ended by a signal, and
\* the return codes of a child that ends by itself
None == -1
SIGTERM_CODE == -15
SIGKILL_CODE == -9
ExitCodes == {1}

UserIds == {1}
ProjectIds == {1}

make_key(user_id, project_id) == <<user_id, project_id>>

Keys == {make_key(u, p) : u \in UserIds, p \in ProjectIds}

Min(a, b) == IF a < b THEN a ELSE b

\* ------------------------------------------------------------------ state
VARIABLES
    running_processes,  \* the registry dict, in insertion order: Seq of [key, p]
    os_procs,           \* child processes ever spawned: pid -> [key, alive]
    heap,               \* the RunningProcess object created for each child, while referenced
    now,                \* wall clock, seconds
    logs,               \* per key, the log file: Seq of entries
    stats,              \* bot_stats counters
    mon,                \* auto_restart_monitor: position and locals
    chain,              \* per key, automatic restarts decided since the last manual call
    ret,                \* the call that has just returned, and its result
    log_data,           \* the bytes of one log file
    install,            \* one project's environment: files, tool calls, last installer result
    tail                \* one read_logs call on that file: its inputs and its result

vars == <<running_processes, os_procs, heap, now, logs, stats, mon, chain, ret,
          log_data, tail, install>>

\* The supervisor-visible world, passed through the pure translations below.
Cur == [rp |-> running_processes, os |-> os_procs, heap |-> heap,
        now |-> now, logs |-> logs, stats |-> stats]

\* ----------------------------------------------------- dict operations
Has(rp, key) == \E i \in DOMAIN rp : rp[i].key = key

Get(rp, key) == rp[CHOOSE i \in DOMAIN rp : rp[i].key = key].p

Put(rp, key, p) ==
    IF Has(rp, key)
    THEN [i \in DOMAIN rp |-> IF rp[i].key = key THEN [key |-> key, p |-> p] ELSE rp[i]]
    ELSE Append(rp, [key |-> key, p |-> p])

\* a removal that empties the dict
Del_clear(rp, key) == <<>>

Del(rp, key) == SelectSeq(rp, LAMBDA e : e.key # key)

\* Popen.poll(): None while the child runs, its return code afterwards
poll(st, p) == IF st.os[p].alive THEN None ELSE st.heap[p].returncode

LiveIn(st, key) == Has(st.rp, key) /\ poll(st, Get(st.rp, key)) = None

\* the child ends with this code
Ended(st, p, code) ==
    [st EXCEPT !.os[p].alive = FALSE, !.heap[p].returncode = code]

\* ------------------------------------------------- external collaborators
\* get_project(): the row of the metadata store, or no row
NoProject == [found |-> FALSE, entry |-> "", lang |-> "", auto_restart |-> 0, entry_exists |-> FALSE]

Row(entry, lang, auto, exists) ==
    [found |-> TRUE, entry |-> entry, lang |-> lang, auto_restart |-> auto, entry_exists |-> exists]

Projects ==
    { NoProject,
      Row("", "py", 1, FALSE),
      Row("main.py", "", 1, TRUE),
      Row("main.py", "py", 1, FALSE),
      Row("main.rb", "rb", 1, TRUE),
      Row("main.py", "py", 1, TRUE),
      Row("main.py", "py", 0, TRUE),
      Row("index.js", "js", 1, TRUE) }

\* what the operating system and the database do during one start
StartEnvs ==
    { [popen |-> "ok", db |-> "ok"],
      [popen |-> "OSError", db |-> "ok"],
      [popen |-> "ok", db |-> "error"] }

\* the inputs of one start: every row with a healthy system, and one
\* launchable row with each failure of the system
Launches ==
    {[project |-> project, env |-> [popen |-> "ok", db |-> "ok"]] : project \in Projects}
    \cup {[project |-> Row("main.py", "py", 1, TRUE), env |-> env] : env \in StartEnvs}

stat_increment(stats_, stat_name) == [stats_ EXCEPT ![stat_name] = @ + 1]

\* a record that is created with auto-restart on, whatever the project says
RunningProcess_auto_on(key, process, start_time, auto_restart) ==
    [ key |-> key,
      process |-> process,
      returncode |-> None,
      start_time |-> start_time,
      auto_restart |-> TRUE,
      restart_count |-> 0,
      last_exit_code |-> None,
      backoff_until |-> 0 ]

RunningProcess(key, process, start_time, auto_restart) ==
    [ key |-> key,
      process |-> process,
      returncode |-> None,
      start_time |-> start_time,
      auto_restart |-> auto_restart,
      restart_count |-> 0,
      last_exit_code |-> None,
      backoff_until |-> 0 ]

\* a log file opened with mode 'w'
WriteLog_truncating(st, key, entry) == [st EXCEPT !.logs[key] = <<entry>>]

\* the log file is opened with mode 'a': a write goes to its end
WriteLog(st, key, entry) == [st EXCEPT !.logs[key] = Append(@, entry)]

\* ------------------------------------------------------------ start_process
Result(st, ok, msg, spawned) == [st |-> st, ok |-> ok, msg |-> msg, spawned |-> spawned]

\* start_process without its "already running" check
start_process_unchecked(st, user_id, project_id, project, env) ==
    LET key == make_key(user_id, project_id)
        banner == WriteLog(st, key, "banner")
        pid == Len(st.os) + 1
        spawnd == [banner EXCEPT
                     !.os = Append(@, [key |-> key, alive |-> TRUE]),
                     !.heap = Append(@, RunningProcess(key, pid, st.now,
                                                       project.auto_restart # 0)),
                     !.rp = Put(@, key, pid)]
    IN  IF ~project.found
        THEN Result(st, FALSE, "NotFound", 0)
        ELSE IF project.entry = "" \/ project.lang = ""
        THEN Result(st, FALSE, "NotConfigured", 0)
        ELSE IF ~project.entry_exists
        THEN Result(st, FALSE, "MissingEntryFile", 0)
        ELSE IF project.lang \notin {"py", "js"}
        THEN Result(banner, FALSE, "UnsupportedLanguage", 0)
        ELSE IF env.popen # "ok"
        THEN Result(WriteLog(banner, key, "start_error"), FALSE, "FailedToStart", 0)
        ELSE IF env.db # "ok"
        THEN Result(WriteLog(spawnd, key, "start_error"), FALSE, "FailedToStart", pid)
        ELSE Result([spawnd EXCEPT !.stats = stat_increment(@, "total_runs")],
                    TRUE, "Started", pid)

\* a check that takes any record under the key for a running child
already_running_any_record(st, key) == Has(st.rp, key)

\* the key has a record and poll() of its child is None
already_running(st, key) == Has(st.rp, key) /\ poll(st, Get(st.rp, key)) = None

\* the checks with the entry file looked for before the project row is read
precheck_entry_file_first(st, key, project) ==
    IF already_running(st, key)
    THEN "AlreadyRunning"
    ELSE IF ~project.entry_exists
    THEN "MissingEntryFile"
    ELSE IF ~project.found
    THEN "NotFound"
    ELSE IF project.entry = "" \/ project.lang = ""
    THEN "NotConfigured"
    ELSE ""

\* the checks start_process makes before it opens the log, in its order: the
\* message of the first that fails, "" when all pass
precheck(st, key, project) ==
    IF already_running(st, key)
    THEN "AlreadyRunning"
    ELSE IF ~project.found
    THEN "NotFound"
    ELSE IF project.entry = "" \/ project.lang = ""
    THEN "NotConfigured"
    ELSE IF ~project.entry_exists
    THEN "MissingEntryFile"
    ELSE ""

start_process(st, user_id, project_id, project, env) ==
    LET key == make_key(user_id, project_id)
        banner == WriteLog(st, key, "banner")
        pid == Len(st.os) + 1
        spawnd == [banner EXCEPT
                     !.os = Append(@, [key |-> key, alive |-> TRUE]),
                     !.heap = Append(@, RunningProcess(key, pid, st.now,
                                                       project.auto_restart # 0)),
                     !.rp = Put(@, key, pid)]
        failed == precheck(st, key, project)
    IN  IF failed # ""
        THEN Result(st, FALSE, failed, 0)
        ELSE IF project.lang \notin {"py", "js"}
        THEN Result(banner, FALSE, "UnsupportedLanguage", 0)
        ELSE IF env.popen # "ok"
        THEN Result(WriteLog(banner, key, "start_error"), FALSE, "FailedToStart", 0)
        ELSE IF env.db # "ok"
        THEN Result(WriteLog(spawnd, key, "start_error"), FALSE, "FailedToStart", pid)
        ELSE Result([spawnd EXCEPT !.stats = stat_increment(@, "total_runs")],
                    TRUE, "Started", pid)

\* ------------------------------------------------------------- stop_process
\* What happens to a live child while stop_process tears it down:
\*   exits_in_grace      it ends on the terminate signal within the wait
\*   needs_kill          the wait times out and the kill signal ends it
\*   gone_NoSuchProcess  it exits by itself after the poll() probe and
\*                       psutil.Process(pid) / children() raises
\*   gone_zombie         it exits by itself after the probe and psutil still
\*                       finds the pid, so the teardown runs to its end
Teardowns ==
    { [kind |-> "exits_in_grace", code |-> SIGTERM_CODE],
      [kind |-> "needs_kill", code |-> SIGKILL_CODE] }
    \cup {[kind |-> kind, code |-> code] :
             kind \in {"gone_NoSuchProcess", "gone_zombie"}, code \in ExitCodes}

\* a probe that never finds the child exited
exited_never(st, process) == FALSE

\* process.poll() is not None
exited(st, process) == poll(st, process) # None

stop_process(st, user_id, project_id, teardown) ==
    LET key == make_key(user_id, project_id)
        process == Get(st.rp, key)
        ended == Ended(st, process, teardown.code)
        waited == IF teardown.kind = "needs_kill"
                  THEN [ended EXCEPT !.now = @ + STOP_WAIT_TIMEOUT]
                  ELSE ended
    IN  IF ~Has(st.rp, key)
        THEN Result(st, FALSE, "NotRunning", 0)
        ELSE IF exited(st, process)
        THEN Result([st EXCEPT !.rp = Del(@, key)], TRUE, "AlreadyStopped", 0)
        ELSE IF teardown.kind = "gone_NoSuchProcess"
        THEN Result(ended, FALSE, "ErrorStopping", 0)
        ELSE Result([waited EXCEPT !.rp = Del(@, key)], TRUE, "Stopped", 0)

\* What stop_process does to processes and to the dict, in the order it does
\* it. to: 0 is the child of the record, 1..children are the descendants
\* psutil enumerated under it.
Did(what, to) == [what |-> what, to |-> to]

Descendants == 0..MaxKids

\* a loop that signals the child before its descendants
SendAll_parent_first(what, children) ==
    [i \in 1..(children + 1) |-> Did(what, i - 1)]

\* the for loop over children, then the call on parent
SendAll(what, children) ==
    [i \in 1..(children + 1) |-> Did(what, IF i <= children THEN i ELSE 0)]

stop_signals(st, user_id, project_id, teardown, children) ==
    LET key == make_key(user_id, project_id)
        process == Get(st.rp, key)
    IN  IF ~Has(st.rp, key)
        THEN <<>>
        ELSE IF exited(st, process)
        THEN <<Did("del", 0)>>
        ELSE IF teardown.kind = "gone_NoSuchProcess"
        THEN <<>>
        ELSE SendAll("terminate", children)
             \o (IF teardown.kind = "needs_kill"
                 THEN <<Did("wait_timeout", 0)>> \o SendAll("kill", children)
                 ELSE <<Did("wait_returned", 0)>>)
             \o <<Did("del", 0)>>

\* the teardown only matters when stop_process finds a live child
TeardownsFor(st, key) ==
    IF LiveIn(st, key) THEN Teardowns ELSE {CHOOSE t \in Teardowns : TRUE}

\* ---------------------------------------------------------- restart_process
\* restart_process going on to start_process although stop_process failed
restart_process_ignoring_stop(st, user_id, project_id, teardown, project, env) ==
    LET key == make_key(user_id, project_id)
        stopped == stop_process(st, user_id, project_id, teardown)
        paused == [stopped.st EXCEPT !.now = @ + RESTART_PAUSE]
    IN  IF Has(st.rp, key)
        THEN start_process(paused, user_id, project_id, project, env)
        ELSE start_process(st, user_id, project_id, project, env)

restart_process(st, user_id, project_id, teardown, project, env) ==
    LET key == make_key(user_id, project_id)
        stopped == stop_process(st, user_id, project_id, teardown)
        paused == [stopped.st EXCEPT !.now = @ + RESTART_PAUSE]
    IN  IF Has(st.rp, key)
        THEN IF ~stopped.ok
             THEN stopped
             ELSE start_process(paused, user_id, project_id, project, env)
        ELSE start_process(st, user_id, project_id, project, env)

\* -------------------------------------------------------- get_process_stats
\* what psutil meets when it samples the child: the child may have gone after
\* the poll() of the function, or the sample may be refused
Samples == {"ok", "NoSuchProcess", "AccessDenied"}

\* the function without its try / except: a failed sample is raised
get_process_stats_unguarded(st, user_id, project_id, sample) ==
    LET key == make_key(user_id, project_id)
    IN  IF ~Has(st.rp, key)
        THEN "None"
        ELSE IF poll(st, Get(st.rp, key)) # None
        THEN "None"
        ELSE IF sample # "ok"
        THEN "Raised"
        ELSE "Running"

\* None unless the key has a record whose child runs and psutil can sample it;
\* the function reads running_processes and assigns nothing
get_process_stats(st, user_id, project_id, sample) ==
    LET key == make_key(user_id, project_id)
    IN  IF ~Has(st.rp, key)
        THEN "None"
        ELSE IF poll(st, Get(st.rp, key)) # None
        THEN "None"
        ELSE IF sample # "ok"
        THEN "None"
        ELSE "Running"

\* ---------------------------------------------------------- get_all_running
\* a list with an entry for every record of the dict
get_all_running_every_record(st) ==
    [i \in DOMAIN st.rp |->
        [key |-> st.rp[i].key, pid |-> st.rp[i].p,
         restarts |-> st.heap[st.rp[i].p].restart_count]]

\* the records of the dict whose poll() is None, in the order of the dict
get_all_running(st) ==
    LET running == SelectSeq(st.rp, LAMBDA e : poll(st, e.p) = None)
    IN  [i \in DOMAIN running |->
            [key |-> running[i].key, pid |-> running[i].p,
             restarts |-> st.heap[running[i].p].restart_count]]

\* whether the log file of the key exists: start_process creates it with
\* its banner
LogExists(st, key) == st.logs[key] # <<>>

\* ---------------------------------------------------------------- installers
\* how a subprocess.run call ends: exit status zero, another exit status,
\* the timeout of the call, or no such executable
Runs == {"zero", "nonzero", "timeout", "not_found"}

\* the exception subprocess.run raises, "none" when it returns a result
raised_by(run) ==
    CASE run = "timeout" -> "TimeoutExpired"
      [] run = "not_found" -> "FileNotFoundError"
      [] OTHER -> "none"

\* isinstance: both exceptions are subclasses of Exception
isinstance(exc, class) == class = exc \/ class = "Exception"

\* the first except clause that takes the exception, 0 when none does
RECURSIVE except_from(_, _, _)
except_from(exc, clauses, i) ==
    IF i > Len(clauses)
    THEN 0
    ELSE IF isinstance(exc, clauses[i])
    THEN i
    ELSE except_from(exc, clauses, i + 1)

\* the except clauses of create_venv, and of the two pip installers
venv_clauses == <<"Exception">>

pip_clauses_timeout_only == <<"TimeoutExpired">>

pip_clauses == <<"TimeoutExpired", "Exception">>

\* the result of an installer and the project directory after it; raised is
\* the exception that left the function, "none" when it returned
Installed(w, ok, msg, raised) == [w |-> w, ok |-> ok, msg |-> msg, raised |-> raised]

\* the venv tool makes the directory when it succeeds; a run that fails or is
\* killed at the timeout leaves it made or not (leaves_dir)
\* a check that never finds the directory
venv_exists_never(w) == FALSE

\* venv_path.exists()
venv_exists(w) == w.venv

create_venv(w, run, leaves_dir) ==
    IF venv_exists(w)
    THEN Installed(w, TRUE, "venv_already_exists", "none")
    ELSE LET exc == raised_by(run)
             w1 == [w EXCEPT !.venv_calls = @ + 1,
                             !.venv = run = "zero" \/ (run \in {"nonzero", "timeout"} /\ leaves_dir)]
         IN  IF exc = "none"
             THEN IF run = "zero"
                  THEN Installed(w1, TRUE, "venv_created", "none")
                  ELSE Installed(w1, FALSE, "venv_failed", "none")
             ELSE IF except_from(exc, venv_clauses, 1) = 1
             THEN Installed(w1, FALSE, "venv_error", "none")
             ELSE Installed(w1, FALSE, "", exc)

\* runs: how the venv tool and pip end in this call
install_requirements(w, runs) ==
    IF ~w.req
    THEN Installed(w, FALSE, "requirements_not_found", "none")
    ELSE LET venv == create_venv(w, runs.venv, runs.leaves_dir)
         IN  IF venv.raised # "none"
             THEN venv
             ELSE IF ~venv.ok
             THEN Installed(venv.w, FALSE, venv.msg, "none")
             ELSE LET exc == raised_by(runs.pip)
                      w1 == [venv.w EXCEPT !.pip_calls = @ + 1]
                      clause == except_from(exc, pip_clauses, 1)
                  IN  IF exc = "none"
                      THEN IF runs.pip = "zero"
                           THEN Installed(w1, TRUE, "dependencies_installed", "none")
                           ELSE Installed(w1, FALSE, "installation_failed", "none")
                      ELSE IF clause = 0
                      THEN Installed(w1, FALSE, "", exc)
                      ELSE IF pip_clauses[clause] = "TimeoutExpired"
                      THEN Installed(w1, FALSE, "installation_timeout_5min", "none")
                      ELSE Installed(w1, FALSE, "installation_error", "none")

\* runs.show: how `pip show` ends; runs.version: its output has a Version: line
install_package(w, runs) ==
    LET venv == create_venv(w, runs.venv, runs.leaves_dir)
    IN  IF venv.raised # "none"
        THEN venv
        ELSE IF ~venv.ok
        THEN Installed(venv.w, FALSE, venv.msg, "none")
        ELSE LET exc == raised_by(runs.pip)
                 w1 == [venv.w EXCEPT !.pip_calls = @ + 1]
                 w2 == [w1 EXCEPT !.pip_calls = @ + 1]
                 shown == raised_by(runs.show)
                 caught(e) == except_from(e, pip_clauses, 1)
                 handled(wx, e) ==
                     IF caught(e) = 0
                     THEN Installed(wx, FALSE, "", e)
                     ELSE IF pip_clauses[caught(e)] = "TimeoutExpired"
                     THEN Installed(wx, FALSE, "installation_timeout", "none")
                     ELSE Installed(wx, FALSE, "error", "none")
             IN  IF exc # "none"
                 THEN handled(w1, exc)
                 ELSE IF runs.pip # "zero"
                 THEN Installed(w1, FALSE, "failed_to_install", "none")
                 ELSE IF shown # "none"
                 THEN handled(w2, shown)
                 ELSE IF runs.show = "zero" /\ runs.version
                 THEN Installed(w2, TRUE, "installed_v1.0", "none")
                 ELSE Installed(w2, TRUE, "installed_vunknown", "none")

\* ---------------------------------------------------------------- read_logs
\* The bytes of a log file: a letter, the line feed, the carriage return, and
\* the lead byte and the continuation byte of a two-byte UTF-8 character.
Byte == {"a", "LF", "CR", "hi", "lo"}

Contents == UNION {[1..n -> Byte] : n \in 0..MaxFile}

\* data.count(b'\n')
CountLF(data) == Cardinality({i \in DOMAIN data : data[i] = "LF"})

\* the condition of the while loop reading too little: it stops as soon as
\* it has seen `lines` line feeds
keep_reading_one_short(data, size, lines) == size > 0 /\ CountLF(data) < lines

\* `while size > 0 and data.count(b'\n') <= lines`
keep_reading(data, size, lines) == size > 0 /\ CountLF(data) <= lines

\* the while loop: blocks are read from the end of the file backwards and put
\* in front of what has been read
RECURSIVE ReadBack(_, _, _, _)
ReadBack(content, size, data, lines) ==
    IF keep_reading(data, size, lines)
    THEN LET read_size == Min(block, size)
             left == size - read_size
         IN  ReadBack(content, left,
                      SubSeq(content, left + 1, left + read_size) \o data, lines)
    ELSE data

\* bytes.decode(errors='replace'): a lead byte with its continuation byte is
\* one character "U"; a lead byte without one, or a continuation byte
\* without a lead byte, becomes the replacement character "?"
RECURSIVE decode(_)
decode(data) ==
    IF data = <<>>
    THEN <<>>
    ELSE IF Head(data) = "hi" /\ Len(data) >= 2 /\ data[2] = "lo"
    THEN <<"U">> \o decode(SubSeq(data, 3, Len(data)))
    ELSE IF Head(data) \in {"hi", "lo"}
    THEN <<"?">> \o decode(Tail(data))
    ELSE <<Head(data)>> \o decode(Tail(data))

\* str.splitlines(): a line ends at "\r\n", "\r" or "\n"; the terminators are
\* dropped and a terminator at the end of the text starts no further line
RECURSIVE SplitFrom(_, _)
SplitFrom(text, line) ==
    IF text = <<>>
    THEN IF line = <<>> THEN <<>> ELSE <<line>>
    ELSE IF Head(text) = "CR" /\ Len(text) >= 2 /\ text[2] = "LF"
    THEN <<line>> \o SplitFrom(SubSeq(text, 3, Len(text)), <<>>)
    ELSE IF Head(text) \in {"CR", "LF"}
    THEN <<line>> \o SplitFrom(Tail(text), <<>>)
    ELSE SplitFrom(Tail(text), Append(line, Head(text)))

splitlines(text) == SplitFrom(text, <<>>)

\* the slice [-n:]: the last n items for n >= 1; [-0:] is [0:], every item
LastN(s, n) ==
    IF n = 0 \/ Len(s) <= n THEN s ELSE SubSeq(s, Len(s) - n + 1, Len(s))

\* '\n'.join(log_lines)
RECURSIVE join(_)
join(log_lines) ==
    IF log_lines = <<>>
    THEN <<>>
    ELSE IF Len(log_lines) = 1
    THEN log_lines[1]
    ELSE log_lines[1] \o <<"LF">> \o join(Tail(log_lines))

\* the three messages read_logs returns in place of log text
NoLogsYet == <<"No logs yet">>
LogIsEmpty == <<"Log is empty">>
ErrorReadingLogs == <<"Error reading logs">>

read_logs(exists, io, content, lines) ==
    LET data == ReadBack(content, Len(content), <<>>, lines)
        log_lines == LastN(splitlines(decode(data)), lines)
    IN  IF ~exists
        THEN NoLogsYet
        ELSE IF io # "ok"
        THEN ErrorReadingLogs
        ELSE IF log_lines # <<>>
        THEN join(log_lines)
        ELSE LogIsEmpty

\* ------------------------------------------------------ auto_restart_monitor
NoItem == [key |-> <<0, 0>>, p |-> 0]

Sleeping(t) ==
    [pc |-> "sleep", wake |-> t + AUTO_RESTART_CHECK_INTERVAL,
     cur |-> NoItem, rest |-> <<>>, backoff |-> 0]

\* a monitor that restarts no record
wants_restart_never(proc_info) == FALSE

\* a monitor that restarts every exited record
wants_restart_always(proc_info) == TRUE

\* `if not proc_info.auto_restart: continue`, negated
wants_restart(proc_info) == proc_info.auto_restart

\* `if now < proc_info.backoff_until: continue`
in_backoff(proc_info, t) == t < proc_info.backoff_until

\* a monitor that does not wait before it restarts
BackoffWake_at_once(t, backoff) == t

\* await asyncio.sleep(backoff): the time at which the monitor runs again
BackoffWake(t, backoff) == t + backoff

\* The body of the for loop over the snapshot, from one item up to the next
\* await: either the backoff wait of an exited auto-restart record, or the
\* poll sleep that follows the last item.
RECURSIVE ScanFrom(_, _)
ScanFrom(st, items) ==
    IF items = <<>>
    THEN [st |-> st, mon |-> Sleeping(st.now)]
    ELSE LET key == Head(items).key
             p == Head(items).p
             exit_code == poll(st, p)
             seen == [st EXCEPT !.heap[p].last_exit_code = exit_code]
             restart_count == st.heap[p].restart_count + 1
             backoff == AUTO_RESTART_BACKOFF_SEC * Min(BACKOFF_CAP, restart_count)
         IN  IF exit_code = None
             THEN ScanFrom(st, Tail(items))
             ELSE IF ~wants_restart(st.heap[p])
             THEN ScanFrom(seen, Tail(items))
             ELSE IF in_backoff(st.heap[p], st.now)
             THEN ScanFrom(seen, Tail(items))
             ELSE [st |-> [seen EXCEPT !.heap[p].restart_count = restart_count,
                                       !.heap[p].backoff_until = st.now + backoff],
                   mon |-> [pc |-> "backoff", wake |-> BackoffWake(st.now, backoff),
                            cur |-> Head(items), rest |-> Tail(items),
                            backoff |-> backoff]]

\* The monitor after its backoff wait: del running_processes[key], then
\* start_process, then the rest of the snapshot.  A KeyError or a failing
\* stat_increment is caught by the except around the for loop, which ends
\* the scan.
\* a monitor that removes the key with pop(key, None) and starts the project
\* whether or not its record was still there
AfterBackoff_pop(st, m, project, env, db) ==
    LET key == m.cur.key
        removed == [st EXCEPT !.rp = Del(@, key)]
        r == start_process(removed, key[1], key[2], project, env)
        counted == [r.st EXCEPT !.stats = stat_increment(@, "total_restarts")]
    IN  IF ~r.ok
        THEN ScanFrom(r.st, m.rest) @@ [ok |-> FALSE, msg |-> r.msg, spawned |-> r.spawned]
        ELSE IF db # "ok"
        THEN [st |-> r.st, mon |-> Sleeping(st.now), ok |-> TRUE, msg |-> r.msg, spawned |-> r.spawned]
        ELSE ScanFrom(counted, m.rest) @@ [ok |-> TRUE, msg |-> r.msg, spawned |-> r.spawned]

\* the coroutine has ended: an exception left the while loop
Dead == [pc |-> "dead", wake |-> 0, cur |-> NoItem, rest |-> <<>>, backoff |-> 0]

\* a loop whose try has no except clause for what is raised in the scan
monitor_clauses_none == <<>>

\* the except clause around the for loop
monitor_clauses == <<"Exception">>

\* an exception raised in the for loop: the except clause takes it, the scan
\* is over and the loop goes to its poll sleep; an exception no clause takes
\* ends the coroutine
after_raise(exc, t) ==
    IF except_from(exc, monitor_clauses, 1) # 0 THEN Sleeping(t) ELSE Dead

AfterBackoff(st, m, project, env, db) ==
    LET key == m.cur.key
        removed == [st EXCEPT !.rp = Del(@, key)]
        r == start_process(removed, key[1], key[2], project, env)
        counted == [r.st EXCEPT !.stats = stat_increment(@, "total_restarts")]
    IN  IF ~Has(st.rp, key)
        THEN [st |-> st, mon |-> after_raise("KeyError", st.now), ok |-> FALSE,
              msg |-> "KeyError", spawned |-> 0]
        ELSE IF ~r.ok
        THEN ScanFrom(r.st, m.rest) @@ [ok |-> FALSE, msg |-> r.msg, spawned |-> r.spawned]
        ELSE IF db # "ok"
        THEN [st |-> r.st, mon |-> after_raise("OperationalError", st.now), ok |-> TRUE,
              msg |-> r.msg, spawned |-> r.spawned]
        ELSE ScanFrom(counted, m.rest) @@ [ok |-> TRUE, msg |-> r.msg, spawned |-> r.spawned]

\* ---------------------------------------------------------- object lifetime
\* A RunningProcess object lives while the dict or the monitor's snapshot
\* refers to it; after that nothing can read it.
Freed == [RunningProcess(<<0, 0>>, 0, 0, FALSE) EXCEPT !.returncode = 0]

Referenced(rp, m) ==
    {rp[i].p : i \in DOMAIN rp} \cup {m.cur.p} \cup {m.rest[i].p : i \in DOMAIN m.rest}

Collect(heap_, rp, m) ==
    [p \in DOMAIN heap_ |-> IF p \in Referenced(rp, m) THEN heap_[p] ELSE Freed]

\* -------------------------------------------------------------------- Init
NoCall ==
    [op |-> "none", key |-> <<0, 0>>, msg |-> "", had |-> FALSE, stop_msg |-> "",
     auto |-> None]

\* a project directory without venv and requirements.txt, no installer called
NoInstall ==
    [venv |-> FALSE, req |-> FALSE, venv_calls |-> 0, pip_calls |-> 0,
     out |-> [fn |-> "none", ok |-> FALSE, msg |-> "", raised |-> "none"]]

\* no read_logs call
Pending == <<"pending">>
NoTail == [exists |-> FALSE, io |-> "ok", lines |-> 1, out |-> Pending]

Init ==
    /\ running_processes = <<>>
    /\ os_procs = <<>>
    /\ heap = <<>>
    /\ now = 0
    /\ logs = [k \in Keys |-> <<>>]
    /\ stats = [total_runs |-> 0, total_restarts |-> 0]
    /\ mon = [pc |-> "sleep", wake |-> 0, cur |-> NoItem, rest |-> <<>>, backoff |-> 0]
    /\ chain = [k \in Keys |-> 0]
    /\ ret = NoCall
    /\ log_data = <<>>
    /\ tail = NoTail
    /\ install = NoInstall

\* ----------------------------------------------------------------- actions
InBounds(st) ==
    /\ st.now <= MaxTime
    /\ Len(st.os) <= MaxProcs
    /\ \A k \in DOMAIN st.logs : Len(st.logs[k]) <= MaxLog

Commit(st, m) ==
    /\ InBounds(st)
    /\ running_processes' = st.rp
    /\ os_procs' = st.os
    /\ heap' = Collect(st.heap, st.rp, m)
    /\ now' = st.now
    /\ logs' = st.logs
    /\ stats' = st.stats
    /\ mon' = m
    /\ UNCHANGED <<log_data, tail, install>>

\* had: the dict held the key when the call began; stop_msg: what the
\* stop_process call inside restart_process returned, "" when there was none;
\* auto: the auto_restart column get_project returned to the call when it
\* launched a child, None when it launched none
Returned(op, key, msg, stop_msg, auto) ==
    [op |-> op, key |-> key, msg |-> msg, had |-> Has(running_processes, key),
     stop_msg |-> stop_msg, auto |-> auto]

LaunchedWith(r, project) == IF r.spawned > 0 THEN project.auto_restart ELSE None

\* a monitor that keeps the event loop for the length of its backoff wait
LoopIdle_backoff_blocks == mon.pc = "sleep"

\* The event loop runs a handler only while no coroutine is running: the
\* monitor is suspended at its backoff wait or at its poll sleep.
LoopIdle == mon.pc \in {"sleep", "backoff"}

\* cb_start_bot
Start(user_id, project_id) ==
    \E launch \in Launches :
        LET key == make_key(user_id, project_id)
            r == start_process(Cur, user_id, project_id, launch.project, launch.env)
        IN  /\ LoopIdle
            /\ Commit(r.st, mon)
            /\ ret' = Returned("start", key, r.msg, "", LaunchedWith(r, launch.project))
            /\ chain' = [chain EXCEPT ![key] = 0]

\* cb_stop_bot
Stop(user_id, project_id) ==
    \E teardown \in TeardownsFor(Cur, make_key(user_id, project_id)) :
        LET key == make_key(user_id, project_id)
            r == stop_process(Cur, user_id, project_id, teardown)
        IN  /\ LoopIdle
            /\ Commit(r.st, mon)
            /\ ret' = Returned("stop", key, r.msg, "", None)
            /\ chain' = [chain EXCEPT ![key] = 0]

\* cb_restart_bot
Restart(user_id, project_id) ==
    \E teardown \in TeardownsFor(Cur, make_key(user_id, project_id)), launch \in Launches :
        LET key == make_key(user_id, project_id)
            r == restart_process(Cur, user_id, project_id, teardown,
                                 launch.project, launch.env)
        IN  /\ LoopIdle
            /\ Commit(r.st, mon)
            /\ ret' = Returned("restart", key, r.msg,
                               IF Has(running_processes, key)
                               THEN stop_process(Cur, user_id, project_id, teardown).msg
                               ELSE "",
                               LaunchedWith(r, launch.project))
            /\ chain' = [chain EXCEPT ![key] = 0]

\* process status / dashboard callbacks: get_process_stats
Stats(user_id, project_id) ==
    \E sample \in Samples :
        LET key == make_key(user_id, project_id)
        IN  /\ LoopIdle
            /\ ret' = Returned("stats", key,
                               get_process_stats(Cur, user_id, project_id, sample),
                               "", None)
            /\ UNCHANGED <<running_processes, os_procs, heap, now, logs, stats, mon, chain,
                           log_data, tail, install>>

\* cb_logs: read_logs
Logs(user_id, project_id) ==
    LET key == make_key(user_id, project_id)
    IN  /\ LoopIdle
        /\ ret' = Returned("logs", key,
                           IF LogExists(Cur, key) THEN "Lines" ELSE "NoLogs", "", None)
        /\ UNCHANGED <<running_processes, os_procs, heap, now, logs, stats, mon, chain,
                       log_data, tail, install>>

Decided(m) ==
    IF m.pc = "backoff" THEN [chain EXCEPT ![m.cur.key] = @ + 1] ELSE chain

\* one scan of the monitor, from the snapshot to its first await
MonitorScan ==
    /\ mon.pc = "sleep"
    /\ now >= mon.wake
    /\ LET r == ScanFrom(Cur, running_processes)
       IN  /\ Commit(r.st, r.mon)
           /\ chain' = Decided(r.mon)
    /\ ret' = NoCall

\* the monitor resumes after asyncio.sleep(backoff)
MonitorRestart ==
    /\ mon.pc = "backoff"
    /\ now >= mon.wake
    /\ \E launch \in Launches, db \in {"ok", "error"} :
        LET r == AfterBackoff(Cur, mon, launch.project, launch.env, db)
        IN  /\ Commit(r.st, r.mon)
            /\ chain' = Decided(r.mon)
            /\ ret' = Returned("auto_restart", mon.cur.key, r.msg, "",
                               LaunchedWith(r, launch.project))

\* a child process ends by itself
Exit(p) ==
    /\ os_procs[p].alive
    /\ \E code \in ExitCodes :
        LET st == Ended(Cur, p, code)
        IN  /\ os_procs' = st.os
            /\ heap' = Collect(st.heap, running_processes, mon)
    /\ ret' = NoCall
    /\ UNCHANGED <<running_processes, now, logs, stats, mon, chain, log_data, tail, install>>

\* The loop is idle and a second passes.  The loop sleeps no longer than up
\* to its next timer, which is the one the monitor waits for.
Tick ==
    /\ now < MaxTime
    /\ now < mon.wake
    /\ now' = now + 1
    /\ ret' = NoCall
    /\ UNCHANGED <<running_processes, os_procs, heap, logs, stats, mon, chain, log_data, tail, install>>

Next ==
    \/ \E u \in UserIds, p \in ProjectIds : Start(u, p)
    \/ \E u \in UserIds, p \in ProjectIds : Stop(u, p)
    \/ \E u \in UserIds, p \in ProjectIds : Restart(u, p)
    \/ \E u \in UserIds, p \in ProjectIds : Stats(u, p)
    \/ \E u \in UserIds, p \in ProjectIds : Logs(u, p)
    \/ MonitorScan
    \/ MonitorRestart
    \/ \E p \in DOMAIN os_procs : Exit(p)
    \/ Tick

Spec == Init /\ [][Next]_vars

\* The monitor is a task of the event loop: a timer that is due resumes it,
\* and time passes.
LiveSpec ==
    /\ Spec
    /\ WF_vars(MonitorScan)
    /\ WF_vars(MonitorRestart)
    /\ WF_vars(Tick)

\* ------------------------------------------------------------- shutdown
\* the program has left its polling and run its cleanup
Down == [pc |-> "down", wake |-> 0, cur |-> NoItem, rest |-> <<>>, backoff |-> 0]

\* list(running_processes.keys())
KeysOf(rp) == [i \in DOMAIN rp |-> rp[i].key]

\* the cleanup loop of main: stop_process for each key of the list; the
\* results are not looked at
RECURSIVE StopAll(_, _, _)
StopAll(st, keys, teardowns) ==
    IF keys = <<>>
    THEN st
    ELSE LET key == Head(keys)
         IN  StopAll(stop_process(st, key[1], key[2], teardowns[key]).st,
                     Tail(keys), teardowns)

\* the finally block of main, when the polling ends
Shutdown ==
    \E teardowns \in [Keys -> Teardowns] :
        /\ LoopIdle
        /\ Commit(StopAll(Cur, KeysOf(running_processes), teardowns), Down)
        /\ ret' = Returned("shutdown", NoCall.key, "", "", None)
        /\ UNCHANGED chain

NextShutdown == Next \/ Shutdown

ShutdownSpec == Init /\ [][NextShutdown]_vars

\* ------------------------------------------------- two projects of one user
PairProjectIds == {1, 2}

PairKeys == {make_key(u, p) : u \in UserIds, p \in PairProjectIds}

InitPair ==
    /\ running_processes = <<>>
    /\ os_procs = <<>>
    /\ heap = <<>>
    /\ now = 0
    /\ logs = [k \in PairKeys |-> <<>>]
    /\ stats = [total_runs |-> 0, total_restarts |-> 0]
    /\ mon = [pc |-> "sleep", wake |-> 0, cur |-> NoItem, rest |-> <<>>, backoff |-> 0]
    /\ chain = [k \in PairKeys |-> 0]
    /\ ret = NoCall
    /\ log_data = <<>>
    /\ tail = NoTail
    /\ install = NoInstall

PairInBounds ==
    /\ now <= MaxPairTime
    /\ Len(os_procs) <= MaxPairProcs
    /\ Len(logs[make_key(1, 1)]) + Len(logs[make_key(1, 2)]) <= MaxPairLog

NextPair ==
    \/ \E u \in UserIds, p \in PairProjectIds : Start(u, p) /\ PairInBounds'
    \/ \E u \in UserIds, p \in PairProjectIds : Stop(u, p) /\ PairInBounds'
    \/ MonitorScan /\ PairInBounds'
    \/ MonitorRestart /\ PairInBounds'
    \/ \E p \in DOMAIN os_procs : Exit(p) /\ PairInBounds'
    \/ Tick /\ PairInBounds'

PairSpec == InitPair /\ [][NextPair]_vars

\* ---------------------------------------------------- read_logs on any file
\* every file content up to MaxFile bytes and every line count from 0 up to
\* MaxLines; a file that does not exist and a file that cannot be read
InitTail ==
    /\ running_processes = <<>>
    /\ os_procs = <<>>
    /\ heap = <<>>
    /\ now = 0
    /\ logs = [k \in Keys |-> <<>>]
    /\ stats = [total_runs |-> 0, total_restarts |-> 0]
    /\ mon = [pc |-> "sleep", wake |-> 0, cur |-> NoItem, rest |-> <<>>, backoff |-> 0]
    /\ chain = [k \in Keys |-> 0]
    /\ ret = NoCall
    /\ install = NoInstall
    /\ log_data \in Contents
    /\ \E lines \in 0..MaxLines :
          \/ tail = [exists |-> TRUE, io |-> "ok", lines |-> lines, out |-> Pending]
          \/ /\ log_data = <<>>
             /\ \/ tail = [exists |-> FALSE, io |-> "ok", lines |-> lines, out |-> Pending]
                \/ tail = [exists |-> TRUE, io |-> "error", lines |-> lines, out |-> Pending]

ReadLogs ==
    /\ tail.out = Pending
    /\ tail' = [tail EXCEPT !.out = read_logs(tail.exists, tail.io, log_data, tail.lines)]
    /\ UNCHANGED <<running_processes, os_procs, heap, now, logs, stats, mon, chain, ret,
                   log_data, install>>

NextTail == ReadLogs

TailSpec == InitTail /\ [][NextTail]_vars

\* ------------------------------------------------ installers of one project
\* the project directory holds requirements.txt or not; the venv is made by
\* the installers
InitInstall ==
    /\ running_processes = <<>>
    /\ os_procs = <<>>
    /\ heap = <<>>
    /\ now = 0
    /\ logs = [k \in Keys |-> <<>>]
    /\ stats = [total_runs |-> 0, total_restarts |-> 0]
    /\ mon = [pc |-> "sleep", wake |-> 0, cur |-> NoItem, rest |-> <<>>, backoff |-> 0]
    /\ chain = [k \in Keys |-> 0]
    /\ ret = NoCall
    /\ log_data = <<>>
    /\ tail = NoTail
    /\ \E req \in BOOLEAN : install = [NoInstall EXCEPT !.req = req]

InstallWorld == [venv |-> install.venv, req |-> install.req,
                 venv_calls |-> install.venv_calls, pip_calls |-> install.pip_calls]

InstallRuns ==
    [venv : Runs, leaves_dir : BOOLEAN, pip : Runs, show : Runs, version : BOOLEAN]

InstallDone(fn, r) ==
    /\ r.w.venv_calls <= MaxCalls
    /\ r.w.pip_calls <= MaxCalls
    /\ install' = [venv |-> r.w.venv, req |-> r.w.req,
                   venv_calls |-> r.w.venv_calls, pip_calls |-> r.w.pip_calls,
                   out |-> [fn |-> fn, ok |-> r.ok, msg |-> r.msg, raised |-> r.raised]]
    /\ UNCHANGED <<running_processes, os_procs, heap, now, logs, stats, mon, chain, ret,
                   log_data, tail>>

\* cb_install_req: install_requirements
InstallRequirements ==
    \E runs \in InstallRuns :
        InstallDone("install_requirements", install_requirements(InstallWorld, runs))

\* the package name message handler: install_package
InstallPackage ==
    \E runs \in InstallRuns :
        InstallDone("install_package", install_package(InstallWorld, runs))

NextInstall == InstallRequirements \/ InstallPackage

InstallSpec == InitInstall /\ [][NextInstall]_vars

TypeOK ==
    /\ now \in 0..MaxTime
    /\ Len(os_procs) = Len(heap)
    /\ Len(os_procs) <= MaxProcs
    /\ \A i \in DOMAIN running_processes : running_processes[i].p \in DOMAIN os_procs
    /\ mon.pc \in {"sleep", "backoff"}

\* ------------------------------------------------------------------ claims
LiveProcs(key) == {p \in DOMAIN os_procs : os_procs[p].key = key /\ os_procs[p].alive}

\* C1: in every reachable state at most one live OS process launched for a
\* key exists, whatever the interleaving of start, stop, restart and the
\* monitor (requests during the monitor's backoff wait included).
C1_AtMostOneLiveProcessPerKey ==
    \A key \in Keys : Cardinality(LiveProcs(key)) <= 1

\* C2: two start(k) calls issued together for a key without a record, the
\* first of which launches a child that is still alive when the second runs:
\* exactly one call succeeds, the other returns AlreadyRunning and exactly one
\* process is spawned.
C2_ExactlyOneStartSucceeds ==
    [][\A key \in Keys :
        ( /\ ret.op = "start" /\ ret.key = key /\ ~ret.had
          /\ LiveIn(Cur, key)
          /\ ret'.op = "start" /\ ret'.key = key )
        => ( /\ ret.msg = "Started"
             /\ ret'.msg = "AlreadyRunning"
             /\ os_procs' = os_procs )]_vars

\* C3: every live child is the process of the record stored under its key,
\* and every record is the record of a child that was launched.
C3_LiveProcessHasItsRecord ==
    /\ \A p \in DOMAIN os_procs :
          os_procs[p].alive =>
              /\ Has(running_processes, os_procs[p].key)
              /\ Get(running_processes, os_procs[p].key) = p
    /\ \A i \in DOMAIN running_processes :
          /\ running_processes[i].p \in DOMAIN os_procs
          /\ os_procs[running_processes[i].p].key = running_processes[i].key

C5_StopAlwaysRemovesRecord ==
    (ret.op = "stop" /\ ret.had) => ~Has(running_processes, ret.key)

\* C6: a stop(k) that directly follows a stop(k) returns NotRunning and
\* leaves the dict unchanged.
C6_SecondStopNotRunning ==
    [][(ret.op = "stop" /\ ret'.op = "stop" /\ ret'.key = ret.key)
        => (ret'.msg = "NotRunning" /\ running_processes' = running_processes)]_vars

\* the step ends in the state and with the message of result r
SameAs(r) ==
    /\ running_processes' = r.st.rp
    /\ os_procs' = r.st.os
    /\ heap' = Collect(r.st.heap, r.st.rp, mon)
    /\ now' = r.st.now
    /\ logs' = r.st.logs
    /\ stats' = r.st.stats
    /\ ret'.msg = r.msg

StopThenStart(st, key, teardown, launch) ==
    LET stopped == stop_process(st, key[1], key[2], teardown)
    IN  start_process([stopped.st EXCEPT !.now = @ + RESTART_PAUSE],
                      key[1], key[2], launch.project, launch.env)

\* C7: restart(k) on a key whose process is running is stop(k) followed by
\* start(k): the old process is terminated, the step ends as that sequence
\* ends, and a record it leaves under k is a new one with a strictly later
\* start_time and restart_count 0.
C7_RestartIsStopThenStart ==
    [][\A key \in Keys :
        (ret'.op = "restart" /\ ret'.key = key /\ LiveIn(Cur, key))
        => LET old == Get(running_processes, key)
           IN  /\ ~os_procs'[old].alive
               /\ \E teardown \in Teardowns, launch \in Launches :
                      SameAs(StopThenStart(Cur, key, teardown, launch))
               /\ Has(running_processes', key) =>
                     LET new == Get(running_processes', key)
                     IN  /\ new # old
                         /\ heap'[new].start_time > heap[old].start_time
                         /\ heap'[new].restart_count = 0]_vars

StopFailures == {"NotRunning", "ErrorStopping"}

\* C8 as stated: whenever stop(k) fails, also with NotRunning because k has
\* no record, restart(k) returns that failure and starts nothing.
C8_RestartFailsWheneverStopFails ==
    /\ (ret.op = "restart" /\ ~ret.had) =>
           (ret.msg = "NotRunning" /\ ~Has(running_processes, ret.key))
    /\ (ret.op = "restart" /\ ret.stop_msg \in StopFailures) =>
           ret.msg = ret.stop_msg

\* C8 as amended: restart(k) calls stop(k) only when k has a record; when
\* that stop fails restart returns the same failure, spawns nothing and
\* leaves the dict as it was; when k has no record restart(k) is start(k).
C8_RestartAfterStopFailure ==
    [][\A key \in Keys :
        (ret'.op = "restart" /\ ret'.key = key)
        => ( /\ Has(running_processes, key) <=> ret'.stop_msg # ""
             /\ ret'.stop_msg \in StopFailures =>
                   /\ ret'.msg = ret'.stop_msg
                   /\ Len(os_procs') = Len(os_procs)
                   /\ running_processes' = running_processes
             /\ ~Has(running_processes, key) =>
                   \E launch \in Launches :
                       SameAs(start_process(Cur, key[1], key[2],
                                            launch.project, launch.env)) )]_vars

C8_Witness ==
    /\ ret.op = "restart"
    /\ ret.stop_msg = "ErrorStopping"
    /\ ret.msg = "ErrorStopping"

\* C9: for a process that crashed N >= 1 times in a row under auto-restart,
\* the backoff the monitor waits before the N-th automatic restart is
\* AUTO_RESTART_BACKOFF_SEC * min(10, N).
C9_BackoffGrowsWithCrashes ==
    (mon.pc = "backoff" /\ chain[mon.cur.key] >= 1)
    => mon.backoff = AUTO_RESTART_BACKOFF_SEC * Min(BACKOFF_CAP, chain[mon.cur.key])

\* C10: after the n-th automatic restart of a chain the record under the key
\* carries restart_count n.
C10_RestartCountKept ==
    (ret.op = "auto_restart" /\ ret.msg = "Started" /\ chain[ret.key] >= 1)
    => ( /\ Has(running_processes, ret.key)
         /\ heap[Get(running_processes, ret.key)].restart_count = chain[ret.key] )

\* the step is one scan of the monitor / the monitor resuming after its
\* backoff wait
IsScanStep == mon.pc = "sleep" /\ mon' # mon

IsRestartStep == mon.pc = "backoff" /\ ret'.op = "auto_restart"

\* C11: the monitor never calls start for an exited record before the
\* backoff_until it set for that record when it detected the exit, and a
\* scan passes over a record whose backoff_until is still in the future.
C11_NoRestartBeforeBackoffUntil ==
    [][ /\ IsRestartStep => now >= heap[mon.cur.p].backoff_until
        /\ IsScanStep =>
              \A i \in DOMAIN running_processes :
                  LET p == running_processes[i].p
                  IN  (poll(Cur, p) # None /\ now < heap[p].backoff_until)
                      => ( /\ heap'[p].restart_count = heap[p].restart_count
                           /\ heap'[p].backoff_until = heap[p].backoff_until
                           /\ mon'.cur.p # p ) ]_vars

C11_Witness ==
    /\ ret.op = "auto_restart"
    /\ ret.msg = "Started"
    /\ LiveIn(Cur, ret.key)
    /\ now >= AUTO_RESTART_BACKOFF_SEC

\* C12: the record an automatic restart creates under a key carries a
\* backoff_until at least as large as that of the record it replaced.
C12_BackoffUntilNonDecreasing ==
    [][(IsRestartStep /\ Has(running_processes, mon.cur.key)
                      /\ Has(running_processes', mon.cur.key))
        => heap'[Get(running_processes', mon.cur.key)].backoff_until
              >= heap[Get(running_processes, mon.cur.key)].backoff_until]_vars

\* C14: whenever the monitor is suspended, in its backoff wait or in its
\* poll sleep (a scan has no other await, so the monitor is never anywhere
\* else between two steps), a start, stop, restart, metrics and log request
\* for any key can each run to completion.
C14_RequestsServedWhileMonitorWaits ==
    mon.pc \in {"sleep", "backoff"} =>
        \A u \in UserIds, p \in ProjectIds :
            /\ ENABLED Start(u, p)
            /\ ENABLED Stop(u, p)
            /\ now + RESTART_PAUSE <= MaxTime => ENABLED Restart(u, p)
            /\ ENABLED Stats(u, p)
            /\ ENABLED Logs(u, p)

C14_Witness ==
    /\ mon.pc = "backoff"
    /\ now < mon.wake
    /\ ret.op = "restart"
    /\ ret.msg = "Started"

\* the records of the dict the scan would restart: exited, flagged for
\* auto-restart and not in backoff
Restartable ==
    {i \in DOMAIN running_processes :
        LET p == running_processes[i].p
        IN  /\ poll(Cur, p) # None
            /\ heap[p].auto_restart
            /\ now >= heap[p].backoff_until}

\* C16: a record carries the auto-restart flag the project had when its child
\* was launched, the flag never changes while the record exists, and a scan
\* decides by that flag alone: it takes up the first exited record whose flag
\* is set and none whose flag is clear, whatever the project says by then.
C16_DecisionUsesFlagCopiedAtLaunch ==
    [][ /\ \A key \in Keys :
              (ret'.key = key /\ ret'.auto # None /\ Has(running_processes', key))
              => heap'[Get(running_processes', key)].auto_restart = (ret'.auto # 0)
        /\ \A p \in DOMAIN heap :
              p \in Referenced(running_processes', mon')
              => heap'[p].auto_restart = heap[p].auto_restart
        /\ IsScanStep =>
              IF Restartable = {}
              THEN mon'.pc = "sleep"
              ELSE /\ mon'.pc = "backoff"
                   /\ mon'.cur = running_processes[CHOOSE i \in Restartable :
                                                       \A j \in Restartable : i <= j] ]_vars

\* the project's auto-restart setting was turned off while the record
\* existed, and the monitor restarted the project all the same
C16_Witness ==
    /\ ret.op = "auto_restart"
    /\ ret.msg = "Started"
    /\ ret.auto = 0
    /\ ret.had

\* C17: a scan that finds an exited record whose auto_restart is false writes
\* the exit code into last_exit_code and changes nothing else: the record
\* stays under its key with its restart_count and backoff_until, and no
\* child is spawned for it.
C17_ExitedWithoutAutoRestartIsLeft ==
    [][IsScanStep =>
          \A i \in DOMAIN running_processes :
              LET p == running_processes[i].p
              IN  (poll(Cur, p) # None /\ ~heap[p].auto_restart)
                  => ( /\ heap'[p] = [heap[p] EXCEPT !.last_exit_code = heap[p].returncode]
                       /\ running_processes' = running_processes
                       /\ os_procs' = os_procs
                       /\ mon'.pc = "sleep" )]_vars

C17_Witness ==
    /\ mon.pc = "sleep"
    /\ \E i \in DOMAIN running_processes :
          LET p == running_processes[i].p
          IN  /\ ~os_procs[p].alive
              /\ ~heap[p].auto_restart
              /\ heap[p].last_exit_code = heap[p].returncode
              /\ heap[p].restart_count = 0
              /\ heap[p].backoff_until = 0

\* C18: when the monitor's restart of a key fails the key is absent from the
\* dict afterwards and total_restarts is unchanged; a restart that succeeds
\* adds exactly one to total_restarts.
C18_FailedAutoRestartLeavesKeyAbsent ==
    [][IsRestartStep =>
          IF ret'.msg = "Started"
          THEN stats'.total_restarts \in {stats.total_restarts, stats.total_restarts + 1}
          ELSE /\ ~Has(running_processes', mon.cur.key)
               /\ stats'.total_restarts = stats.total_restarts]_vars

\* the time by which the monitor has restarted a record that has exited now
RestartDue(p) ==
    IF mon.pc = "backoff"
    THEN mon.wake
    ELSE (IF mon.wake > now THEN mon.wake ELSE now)
         + AUTO_RESTART_BACKOFF_SEC * Min(BACKOFF_CAP, heap[p].restart_count + 1)

\* the child of the record under the key has exited, the record is flagged
\* for auto-restart and the model has room for the restart
ExitedUnderAutoRestart(key, p) ==
    /\ Has(running_processes, key)
    /\ Get(running_processes, key) = p
    /\ ~os_procs[p].alive
    /\ heap[p].auto_restart
    /\ RestartDue(p) <= MaxTime
    /\ Len(os_procs) < MaxProcs
    /\ Len(logs[key]) + 2 <= MaxLog

\* the monitor has just put a new record with a live child under the key
RestartedByMonitor(key, p) ==
    /\ ret.op = "auto_restart"
    /\ ret.key = key
    /\ LiveIn(Cur, key)
    /\ Get(running_processes, key) > p
    /\ heap[Get(running_processes, key)].start_time = now

\* a stop, start or restart was issued for the key
Intervened(key) == ret.op \in {"start", "stop", "restart"} /\ ret.key = key

\* the monitor's start_process could launch nothing: the project is gone or
\* not launchable any more, or Popen failed
NothingLaunched(key) == ret.op = "auto_restart" /\ ret.key = key /\ ret.auto = None

\* C15: when the child of a project with auto-restart exits and nobody
\* issues a stop, start or restart for the key, then, the project still being
\* launchable, the dict eventually holds a new record for the key with a
\* live child, and that record's start_time is later than the old one's.
C15_ExitedProjectRunsAgain ==
    /\ \A key \in Keys : \A p \in 1..MaxProcs :
          (Len(os_procs) >= p /\ ExitedUnderAutoRestart(key, p))
          ~> (RestartedByMonitor(key, p) \/ Intervened(key) \/ NothingLaunched(key))
    /\ [][\A key \in Keys :
            (IsRestartStep /\ mon.cur.key = key /\ ret'.auto # None)
            => ( /\ LiveIn(Cur', key)
                 /\ heap'[Get(running_processes', key)].start_time
                       > heap[mon.cur.p].start_time )]_vars

C15_Witness ==
    /\ ret.op = "auto_restart"
    /\ LiveIn(Cur, ret.key)
    /\ heap[Get(running_processes, ret.key)].start_time = now
    /\ chain[ret.key] = 1
    /\ stats.total_restarts = 1

\* the lines of a full read of the file
FullRead == splitlines(decode(log_data))

Answered == tail.out # Pending /\ tail.exists /\ tail.io = "ok"

C13_BackoffWaitIsPerRecord ==
    [][IsScanStep =>
          \A i \in Restartable :
              LET p == running_processes[i].p
              IN  heap'[p].backoff_until
                    = now + AUTO_RESTART_BACKOFF_SEC
                              * Min(BACKOFF_CAP, heap[p].restart_count + 1)]_vars

\* the records of the monitor's snapshot that are still to be handled and
\* that it would restart
StillToRestart ==
    {i \in DOMAIN mon.rest :
        LET p == mon.rest[i].p
        IN  /\ poll(Cur, p) # None
            /\ heap[p].auto_restart
            /\ now >= heap[p].backoff_until}

\* C19: when stop(k) removed the record of k while the monitor waited out
\* k's backoff, the monitor's own removal of k is a no-op and the handling
\* of the remaining records of the scan goes on: the first of them that is
\* to be restarted is taken up.
C19_MonitorRemovalOfAbsentKey ==
    [][(IsRestartStep /\ ~Has(running_processes, mon.cur.key) /\ StillToRestart # {})
        => ( /\ mon'.pc = "backoff"
             /\ mon'.cur \in {mon.rest[i] : i \in StillToRestart} )]_vars

\* (C21) get_process_stats returns None, and raises nothing, when the dict has
\* no record for the key, when the record's child has exited, and when the
\* child is gone by the time psutil samples it; whatever psutil meets the
\* answer is None or the sample; the call leaves running_processes as it was
C21_StatsNoneAndRegistryUntouched ==
    [][ /\ \A user_id \in UserIds, project_id \in ProjectIds, sample \in Samples :
              LET key == make_key(user_id, project_id)
                  answer == get_process_stats(Cur, user_id, project_id, sample)
              IN  /\ answer \in {"None", "Running"}
                  /\ ~LiveIn(Cur, key) => answer = "None"
                  /\ sample = "NoSuchProcess" => answer = "None"
        /\ ret'.op = "stats" =>
              /\ running_processes' = running_processes
              /\ ret'.msg \in {"None", "Running"}
              /\ ~LiveIn(Cur, ret'.key) => ret'.msg = "None" ]_vars

\* a call on a running child came back None: the sample failed
C21_Witness ==
    /\ ret.op = "stats"
    /\ ret.msg = "None"
    /\ LiveIn(Cur, ret.key)

\* (C22) however the venv tool, pip install and pip show end (exit status
\* zero, another exit status, timeout, executable not found), create_venv,
\* install_requirements and install_package return a (success, message) pair:
\* no exception leaves them
C22_InstallersReturnResult ==
    /\ install.out.raised = "none"
    /\ install.out.fn # "none" => install.out.msg # ""
    /\ \A runs \in InstallRuns :
          /\ create_venv(InstallWorld, runs.venv, runs.leaves_dir).raised = "none"
          /\ create_venv(InstallWorld, runs.venv, runs.leaves_dir).msg # ""
          /\ install_requirements(InstallWorld, runs).raised = "none"
          /\ install_package(InstallWorld, runs).raised = "none"

\* pip was not found, and the version query of an installed package timed out
C22_Witness ==
    \/ install.out.fn = "install_requirements" /\ install.out.msg = "installation_error"
    \/ install.out.fn = "install_package" /\ install.out.msg = "installation_timeout"
          /\ install.pip_calls = 2

IsPrefix(s, t) == Len(s) <= Len(t) /\ SubSeq(t, 1, Len(s)) = s

Appended(key) == SubSeq(logs'[key], Len(logs[key]) + 1, Len(logs'[key]))

LaunchedFor(key) ==
    /\ Len(os_procs') > Len(os_procs)
    /\ os_procs'[Len(os_procs')].key = key

\* (C23) no step of start, stop, restart, the monitor or read_logs truncates
\* or rewrites a log file: the content before the step is a prefix of the
\* content after it, and a step that launches a child appends exactly one
\* banner, placed right after the content the file had
C23_LogIsAppendOnly ==
    [][ \A key \in Keys :
          /\ IsPrefix(logs[key], logs'[key])
          /\ LaunchedFor(key) =>
                /\ Appended(key) # <<>>
                /\ Appended(key)[1] = "banner"
                /\ Cardinality({i \in DOMAIN Appended(key) :
                                    Appended(key)[i] = "banner"}) = 1 ]_vars

\* a second launch wrote its banner after the banner of the first
C23_Witness ==
    /\ ret.auto # None
    /\ Len(logs[ret.key]) >= 2
    /\ logs[ret.key][Len(logs[ret.key])] = "banner"
    /\ logs[ret.key][1] = "banner"

\* (C24) a start_process call that returns a failure has left no child of its
\* own running and has left running_processes as it was before the call
C24_FailedStartLeavesNothing ==
    [][ (ret'.op = "start" /\ ret'.msg # "Started") =>
            /\ running_processes' = running_processes
            /\ \A p \in DOMAIN os_procs' : p > Len(os_procs) => ~os_procs'[p].alive ]_vars

\* (C25) start_process answers "already running" exactly when the dict holds
\* a record for the key whose child is alive; over a record whose child has
\* exited it goes on, and when it launches it puts a new record in its
\* place: restart_count 0, backoff_until 0, auto_restart as get_project
\* returned it to this call
C25_AlreadyRunningIffAlive ==
    [][ ret'.op = "start" =>
          /\ ret'.msg = "AlreadyRunning" <=> LiveIn(Cur, ret'.key)
          /\ ret'.auto # None =>
                /\ Has(running_processes', ret'.key)
                /\ Get(running_processes', ret'.key) = Len(os_procs')
                /\ Len(os_procs') = Len(os_procs) + 1
                /\ heap'[Len(os_procs')].restart_count = 0
                /\ heap'[Len(os_procs')].backoff_until = 0
                /\ heap'[Len(os_procs')].auto_restart = (ret'.auto # 0) ]_vars

\* a start over the exited record the monitor is waiting on: the old record
\* counts one restart, the new one none
C25_Witness ==
    /\ ret.op = "start"
    /\ ret.had
    /\ ret.msg = "Started"
    /\ mon.pc = "backoff"
    /\ mon.cur.key = ret.key
    /\ mon.cur.p # Get(running_processes, ret.key)
    /\ heap[mon.cur.p].restart_count >= 1
    /\ heap[Get(running_processes, ret.key)].restart_count = 0

\* every row get_project can return, with the entry file present or not
AllRows ==
    {NoProject} \cup
    {Row(entry, lang, 1, exists) :
        entry \in {"", "main.py"}, lang \in {"", "py", "rb"}, exists \in BOOLEAN}

CheckOrder ==
    <<"AlreadyRunning", "NotFound", "NotConfigured", "MissingEntryFile",
      "UnsupportedLanguage">>

\* the check fails on its own account
Fails(check, st, key, project) ==
    CASE check = "AlreadyRunning" -> LiveIn(st, key)
      [] check = "NotFound" -> ~project.found
      [] check = "NotConfigured" -> project.entry = "" \/ project.lang = ""
      [] check = "MissingEntryFile" -> ~project.entry_exists
      [] check = "UnsupportedLanguage" -> project.lang \notin {"py", "js"}

Failing(st, key, project) == {i \in DOMAIN CheckOrder : Fails(CheckOrder[i], st, key, project)}

FirstFailing(st, key, project) ==
    CHOOSE i \in Failing(st, key, project) : \A j \in Failing(st, key, project) : i <= j

HealthyEnv == [popen |-> "ok", db |-> "ok"]

\* (C26) when several preconditions of start_process fail at once, the
\* failure it reports is the first failing one in the order AlreadyRunning,
\* NotFound, NotConfigured, MissingEntryFile, UnsupportedLanguage, and it
\* starts when none fails; it writes the banner to the log exactly when the
\* first four pass
C26_FirstFailingCheckIsReported ==
    \A user_id \in UserIds, project_id \in ProjectIds, project \in AllRows :
        LET key == make_key(user_id, project_id)
            r == start_process(Cur, user_id, project_id, project, HealthyEnv)
            failing == Failing(Cur, key, project)
        IN  /\ r.msg = IF failing = {}
                       THEN "Started"
                       ELSE CheckOrder[FirstFailing(Cur, key, project)]
            /\ r.st.logs[key] # logs[key] <=> failing \cap (1..4) = {}
            /\ r.st.logs[key] # logs[key] => r.st.logs[key] = Append(logs[key], "banner")

\* a start call reported NotConfigured, and each row of the store that
\* gives this answer fails a later check too
C26_Witness ==
    /\ ret.op = "start"
    /\ ret.msg = "NotConfigured"
    /\ \A project \in Projects :
          precheck(Cur, ret.key, project) = "NotConfigured" =>
              Cardinality(Failing(Cur, ret.key, project)) >= 2

Sent(trace) == {i \in DOMAIN trace : trace[i].what \in {"terminate", "kill"}}

\* (C27) when stop_process finds the child alive, terminate goes to every
\* enumerated descendant before it goes to the child itself, kill is sent
\* only after the wait of STOP_WAIT_TIMEOUT seconds has timed out with the
\* child alive, and the record is deleted after all of it, as the last step
C27_StopOrder ==
    \A user_id \in UserIds, project_id \in ProjectIds,
       teardown \in Teardowns, children \in Descendants :
        LET key == make_key(user_id, project_id)
            trace == stop_signals(Cur, user_id, project_id, teardown, children)
            r == stop_process(Cur, user_id, project_id, teardown)
            At(what, to) == {i \in DOMAIN trace : trace[i] = Did(what, to)}
        IN  LiveIn(Cur, key) =>
              /\ \A c \in 1..children :
                    \A j \in At("terminate", 0) : \E i \in At("terminate", c) : i < j
              /\ r.msg = "Stopped" => /\ At("terminate", 0) # {}
                                      /\ \A c \in 1..children : At("terminate", c) # {}
              /\ \A i \in DOMAIN trace :
                    trace[i].what = "kill" =>
                        /\ teardown.kind = "needs_kill"
                        /\ \E j \in At("wait_timeout", 0) : j < i
                        /\ \E j \in At("terminate", trace[i].to) : j < i
              /\ At("wait_returned", 0) # {} => At("wait_timeout", 0) = {}
              /\ \A i \in At("del", 0) : i = Len(trace) /\ Sent(trace) # {}
              /\ At("del", 0) # {} <=> ~Has(r.st.rp, key)

\* a stop call found the child alive and tore it down
C27_Witness ==
    /\ ret.op = "stop"
    /\ ret.had
    /\ ret.msg = "Stopped"
    /\ ~Has(running_processes, ret.key)
    /\ \E p \in DOMAIN os_procs : os_procs[p].key = ret.key /\ ~os_procs[p].alive

\* (C28) stop_process on a key whose record's child has already exited
\* deletes the record, returns success and signals no process
C28_StopOfExitedRecord ==
    /\ \A user_id \in UserIds, project_id \in ProjectIds,
          teardown \in Teardowns, children \in Descendants :
           LET key == make_key(user_id, project_id)
               trace == stop_signals(Cur, user_id, project_id, teardown, children)
               r == stop_process(Cur, user_id, project_id, teardown)
           IN  (Has(running_processes, key) /\ ~LiveIn(Cur, key)) =>
                 /\ r.ok
                 /\ ~Has(r.st.rp, key)
                 /\ Sent(trace) = {}
                 /\ r.st.os = os_procs
                 /\ r.st.heap = heap
    /\ (ret.op = "stop" /\ ret.msg = "AlreadyStopped") =>
           ~Has(running_processes, ret.key)

\* a stop call found the record of an exited child
C28_Witness ==
    /\ ret.op = "stop"
    /\ ret.had
    /\ ret.msg = "AlreadyStopped"
    /\ ~Has(running_processes, ret.key)

StopSucceeded(key) ==
    /\ ret'.op = "stop"
    /\ ret'.key = key
    /\ ret'.msg \in {"Stopped", "AlreadyStopped"}

Requested(key) == ret'.op \in {"start", "restart"} /\ ret'.key = key

\* (C29) a project stopped with stop_process is not restarted by the monitor:
\* a successful stop leaves the key without record, and as long as a key has
\* no record only a start or restart request for it launches a child for it
\* or gives it a record, whether the monitor is in its backoff wait for the
\* key or still has the old record of the key in its snapshot
C29_StoppedProjectStaysStopped ==
    [][ \A key \in PairKeys :
          /\ StopSucceeded(key) => ~Has(running_processes', key)
          /\ ~Has(running_processes, key) =>
                /\ LaunchedFor(key) => Requested(key)
                /\ Has(running_processes', key) => Requested(key) ]_vars

\* the monitor has gone on from the restart of one project to the record its
\* snapshot holds for the other, which was stopped in the meantime, and is
\* in the backoff wait for it, due within the time explored
C29_Witness ==
    /\ ret.op = "auto_restart"
    /\ mon.pc = "backoff"
    /\ mon.cur.key # ret.key
    /\ ~Has(running_processes, mon.cur.key)
    /\ mon.wake <= MaxPairTime

\* (C30) the monitor removes from running_processes only the exited record
\* it decided to restart: when the key holds another record by the time the
\* monitor resumes from its backoff wait, that record stays in the dict
C30_MonitorRemovesOnlyItsRecord ==
    [][ (IsRestartStep
         /\ Has(running_processes, mon.cur.key)
         /\ Get(running_processes, mon.cur.key) # mon.cur.p) =>
            /\ Has(running_processes', mon.cur.key)
            /\ Get(running_processes', mon.cur.key) = Get(running_processes, mon.cur.key) ]_vars

\* the record of the key is in the world st what it is now: present or
\* absent alike, the same object, with the same fields
SameRecord(key, st) ==
    /\ Has(st.rp, key) <=> Has(running_processes, key)
    /\ Has(running_processes, key) =>
          /\ Get(st.rp, key) = Get(running_processes, key)
          /\ st.heap[Get(running_processes, key)] = heap[Get(running_processes, key)]

\* the monitor resuming for its current record alone
RestartOnly == [mon EXCEPT !.rest = <<>>]

\* (C31) start_process, stop_process and restart_process of one key, and the
\* monitor's removal and start_process for one key, leave the record of every
\* other key as it was: not removed, not replaced, no field changed
C31_OtherKeysUntouched ==
    \A user_id \in UserIds, project_id \in PairProjectIds, other \in PairProjectIds :
        other # project_id =>
            LET j == make_key(user_id, other)
            IN  /\ \A launch \in Launches :
                      SameRecord(j, start_process(Cur, user_id, project_id,
                                                  launch.project, launch.env).st)
                /\ \A teardown \in Teardowns :
                      SameRecord(j, stop_process(Cur, user_id, project_id, teardown).st)
                /\ \A teardown \in Teardowns, launch \in Launches :
                      SameRecord(j, restart_process(Cur, user_id, project_id, teardown,
                                                    launch.project, launch.env).st)
                /\ (mon.pc = "backoff" /\ mon.cur.key = make_key(user_id, project_id)) =>
                      \A launch \in Launches, db \in {"ok", "error"} :
                          SameRecord(j, AfterBackoff(Cur, RestartOnly, launch.project,
                                                     launch.env, db).st)

\* one project was stopped while the other has its record
C31_Witness ==
    /\ ret.op = "stop"
    /\ ret.msg = "Stopped"
    /\ \E key \in PairKeys : key # ret.key /\ LiveIn(Cur, key)

\* the lines of a read_logs result that are lines of the log: none when the
\* result is the "Log is empty" message or the empty string
LinesOf(out) == IF out = LogIsEmpty \/ out = <<>> THEN 0 ELSE CountLF(out) + 1

\* (C32) for every line count n >= 0, 0 included, read_logs returns at most
\* n lines of the log
C32_AtMostMaxLines ==
    Answered => LinesOf(tail.out) <= tail.lines

\* the poll sleep of the monitor is over
ScanIsDue == mon.pc = "sleep" /\ now >= mon.wake

\* the records of the dict whose child has exited and that are flagged for
\* auto-restart
ExitedFlagged ==
    {i \in DOMAIN running_processes :
        /\ ~os_procs[running_processes[i].p].alive
        /\ heap[running_processes[i].p].auto_restart}

\* (C33) the monitor coroutine never ends: an exception raised while it
\* handles a record is caught; after every backoff wait it comes to its poll
\* sleep, every poll sleep ends and is followed by a new scan (as far as the
\* time explored goes), and a scan looks at every record of the dict that
\* has exited under auto-restart: it notes its exit code and takes up its
\* restart
C33_MonitorKeepsScanning ==
    /\ [](mon.pc # "dead")
    /\ (mon.pc = "backoff" /\ mon.wake <= MaxTime) ~> (mon.pc = "sleep")
    /\ (mon.pc = "sleep" /\ mon.wake <= MaxTime) ~> ScanIsDue
    /\ ScanIsDue ~> ~ScanIsDue
    /\ [][IsScanStep =>
            \A i \in ExitedFlagged :
                LET p == running_processes[i].p
                IN  /\ heap'[p].last_exit_code # None
                    /\ mon'.pc = "backoff"
                    /\ mon'.cur.p = p]_vars

\* the del of the monitor raised KeyError, the except clause took it, and
\* the monitor is in its poll sleep with the next scan within the time
\* explored
C33_Witness ==
    /\ ret.op = "auto_restart"
    /\ ret.msg = "KeyError"
    /\ mon.pc = "sleep"
    /\ mon.wake <= MaxTime

\* (C34) once the cleanup of main has called stop_process for every key of
\* the dict, the dict is empty and no child the program launched is alive
C34_ShutdownLeavesNothing ==
    (ret.op = "shutdown" /\ mon.pc = "down") =>
        /\ running_processes = <<>>
        /\ \A p \in DOMAIN os_procs : ~os_procs[p].alive

\* (C35) get_all_running returns the records of the dict whose child is
\* alive at the call and no other: a record whose child has exited is not
\* listed, a record whose child runs is listed once, with its pid
C35_ListIsTheLiveRecords ==
    LET listed == get_all_running(Cur)
    IN  /\ \A key \in PairKeys :
              Cardinality({i \in DOMAIN listed : listed[i].key = key})
                  = IF LiveIn(Cur, key) THEN 1 ELSE 0
        /\ \A i \in DOMAIN listed :
              /\ listed[i].pid = Get(running_processes, listed[i].key)
              /\ os_procs[listed[i].pid].alive
              /\ listed[i].restarts = heap[listed[i].pid].restart_count

\* the dict holds a record left in place after its child exited with
\* auto-restart off, and a record whose child runs
C35_Witness ==
    /\ \E key \in PairKeys :
          /\ Has(running_processes, key)
          /\ ~LiveIn(Cur, key)
          /\ ~heap[Get(running_processes, key)].auto_restart
          /\ heap[Get(running_processes, key)].last_exit_code # None
    /\ \E key \in PairKeys : LiveIn(Cur, key)
    /\ Len(get_all_running(Cur)) = 1

\* (C36) install_package returns success whenever pip install exits with
\* status zero, however the pip show that follows ends: a query that fails,
\* times out or cannot be run only makes the reported version "unknown"
C36_InstalledWhateverTheQuery ==
    \A runs \in InstallRuns :
        (create_venv(InstallWorld, runs.venv, runs.leaves_dir).ok /\ runs.pip = "zero") =>
            /\ install_package(InstallWorld, runs).ok
            /\ ~(runs.show = "zero" /\ runs.version) =>
                   install_package(InstallWorld, runs).msg = "installed_vunknown"

\* two create_venv calls in a row, the tool ending as in first and second
TwoCalls(first, second) ==
    LET r1 == create_venv(InstallWorld, first.venv, first.leaves_dir)
    IN  [r1 |-> r1, r2 |-> create_venv(r1.w, second.venv, second.leaves_dir)]

\* C37 as stated: create_venv returns success without running the venv tool
\* when the directory exists, and of two calls in a row the second returns
\* success and the two run the tool at most once
C37_SecondCallSucceeds ==
    \A first \in InstallRuns, second \in InstallRuns :
        LET two == TwoCalls(first, second)
        IN  /\ install.venv => (two.r1.ok /\ two.r1.w = InstallWorld)
            /\ two.r2.ok
            /\ two.r2.w.venv_calls <= install.venv_calls + 1

\* C37 as amended: create_venv returns success without running the venv tool
\* when the directory exists; after a call that returned success the next
\* call returns success ("already exists") without running the tool, so the
\* two run it at most once; after a call that failed and left no directory
\* the next call runs the tool again, and it fails if the tool fails again
C37_IdempotentOnceCreated ==
    \A first \in InstallRuns, second \in InstallRuns :
        LET two == TwoCalls(first, second)
        IN  /\ install.venv => /\ two.r1.ok
                               /\ two.r1.msg = "venv_already_exists"
                               /\ two.r1.w = InstallWorld
            /\ two.r1.ok => /\ two.r2.ok
                            /\ two.r2.msg = "venv_already_exists"
                            /\ two.r2.w = two.r1.w
                            /\ two.r2.w.venv_calls <= install.venv_calls + 1
            /\ (~two.r1.ok /\ ~two.r1.w.venv) =>
                   /\ two.r2.w.venv_calls = install.venv_calls + 2
                   /\ two.r2.ok <=> second.venv = "zero"

\* installers were called again after the one that made the venv: the tool
\* has run once
C37_Witness ==
    /\ install.venv
    /\ install.venv_calls = 1
    /\ install.pip_calls >= 3
    /\ install.out.ok

====
